---- MODULE Spec2Model ----
(***************************************************************************)
(* Authentication core of the dream-interpreter backend: the token         *)
(* manager (utils/auth.ts), the request gate (middleware/auth.ts), the     *)
(* in-memory user directory (dao/userDao.ts) and the /api/auth routes      *)
(* (routes/auth.ts).                                                       *)
(*                                                                         *)
(* Strings that the code inspects character by character (passwords,       *)
(* e-mail addresses) are sequences of one-character strings.  The          *)
(* Authorization header is a sequence of items, each item being the space  *)
(* character or a chunk without spaces (a scheme word or a token).         *)
(* Time is Date.now() in milliseconds; jsonwebtoken works in whole seconds *)
(* (floor(Date.now() / 1000)).                                             *)
(***************************************************************************)
EXTENDS Integers, Sequences, FiniteSets, TLC

VARIABLES
    now,            \* Date.now(), milliseconds
    users,          \* userDao.ts `users` array
    uuidCount,      \* number of uuidv4() values drawn so far
    requestCounts,  \* middleware `requestCounts` map: ip -> {count, resetTime}
    passed,         \* history: per ip, requests passed by rateLimit in the stored window
    deleted,        \* history: the accounts removed by UserDao.deleteUser
    last,           \* the request handled last and the reply it got
    calls,          \* UserDao calls running concurrently: slot -> call record
    evaluated,      \* the AuthUtils call made last: function, arguments, result
    hashed,         \* history: the credentials hashPassword has returned
    dreamHistory    \* dreamDao.ts `dreamHistory` array

vars == <<now, users, uuidCount, requestCounts, passed, deleted, last,
          calls, evaluated, hashed, dreamHistory>>

-----------------------------------------------------------------------------
(* Bounds of the model *)

MaxSec == 2         \* the clock runs over seconds 0..MaxSec
MaxUsers == 2       \* users stored at the same time
MaxIds == 2         \* uuidv4() draws
CountSlack == 2     \* a window's count is followed up to maxRequests + CountSlack
maxRequests == 3    \* rateLimit's maxRequests argument
windowMs == 1000    \* rateLimit's windowMs argument
MaxCalls == 2       \* UserDao calls running at the same time

(* Program constants *)

MsPerSec == 1000
JWT_SECRET == "luna-super-secret-key-change-in-production"
JWT_REFRESH_SECRET == "luna-refresh-secret-key-change-in-production"
JWT_EXPIRES_IN == <<"7", "d">>
JWT_REFRESH_EXPIRES_IN == <<"3", "0", "d">>
ISSUER == "luna-api"
AUDIENCE == "luna-frontend"

Null == [null |-> TRUE]

-----------------------------------------------------------------------------
(* The clock *)

\* The instants at which the model observes the clock: around every whole
\* second, which is where windows and token lifetimes begin and end.
Instants == { s * MsPerSec + o : s \in 0..MaxSec, o \in {0, 1, MsPerSec - 1} }

\* The whole seconds among them
WholeSeconds == { s * MsPerSec : s \in 0..MaxSec }

\* Math.floor(Date.now() / 1000)
UnixSeconds(ms) == ms \div MsPerSec

-----------------------------------------------------------------------------
(* Decimal numbers in strings *)

\* The decimal digits in order: the digit at place i has the value i - 1
DigitSeq == << "0","1","2","3","4","5","6","7","8","9" >>

DigitValue(c) == (CHOOSE i \in DOMAIN DigitSeq : DigitSeq[i] = c) - 1

\* parseInt(value) of a string of decimal digits
RECURSIVE parseInt(_)
parseInt(value) ==
    IF value = << >> THEN 0
    ELSE parseInt(SubSeq(value, 1, Len(value) - 1)) * 10 + DigitValue(value[Len(value)])

-----------------------------------------------------------------------------
(* jsonwebtoken, as utils/auth.ts uses it *)

\* A compact signed token: the payload and the secret its signature was made
\* with.  Any string that is not header.payload.signature is Malformed.
Malformed == [malformed |-> TRUE]

IsJwt(token) == DOMAIN token = {"payload", "sig"}

\* The seconds in an expiresIn string of digits and a unit (the package ms)
timespan(expiresIn) ==
    LET n     == Len(expiresIn)
        value == parseInt(SubSeq(expiresIn, 1, n - 1))
        unit  == expiresIn[n]
    IN  IF unit = "d" THEN value * 24 * 60 * 60
        ELSE IF unit = "h" THEN value * 60 * 60
        ELSE IF unit = "m" THEN value * 60
        ELSE value

\* jwt.sign(payload, secret, { expiresIn }): the payload is stamped with iat
\* and exp = iat + timespan(expiresIn) and nothing else is added; iss and aud
\* are written only when the options name an issuer and an audience.
jwt_sign(payload, secret, expiresIn, clock) ==
    [ payload |-> [ userId |-> payload.userId,
                    email  |-> payload.email,
                    iat    |-> UnixSeconds(clock),
                    exp    |-> UnixSeconds(clock) + timespan(expiresIn) ],
      sig |-> secret ]

\* Variant: verification with ignoreExpiration
jwt_verify_IgnoreExpiration(token, secret, issuer, audience, clock) ==
    IF ~IsJwt(token)
      THEN [ok |-> FALSE, error |-> "jwt malformed"]
    ELSE IF token.sig # secret
      THEN [ok |-> FALSE, error |-> "invalid signature"]
    ELSE IF ~("aud" \in DOMAIN token.payload /\ token.payload.aud = audience)
      THEN [ok |-> FALSE, error |-> "jwt audience invalid"]
    ELSE IF ~("iss" \in DOMAIN token.payload /\ token.payload.iss = issuer)
      THEN [ok |-> FALSE, error |-> "jwt issuer invalid"]
    ELSE [ok |-> TRUE, payload |-> token.payload]

\* jwt.verify(token, secret, { issuer, audience }): the decoded payload, or the
\* name of the error it throws.
jwt_verify(token, secret, issuer, audience, clock) ==
    IF ~IsJwt(token)
      THEN [ok |-> FALSE, error |-> "jwt malformed"]
    ELSE IF token.sig # secret
      THEN [ok |-> FALSE, error |-> "invalid signature"]
    ELSE IF "exp" \in DOMAIN token.payload /\ UnixSeconds(clock) >= token.payload.exp
      THEN [ok |-> FALSE, error |-> "jwt expired"]
    ELSE IF ~("aud" \in DOMAIN token.payload /\ token.payload.aud = audience)
      THEN [ok |-> FALSE, error |-> "jwt audience invalid"]
    ELSE IF ~("iss" \in DOMAIN token.payload /\ token.payload.iss = issuer)
      THEN [ok |-> FALSE, error |-> "jwt issuer invalid"]
    ELSE [ok |-> TRUE, payload |-> token.payload]

-----------------------------------------------------------------------------
(* utils/auth.ts: AuthUtils *)

generateAccessToken(payload, clock) ==
    jwt_sign(payload, JWT_SECRET, JWT_EXPIRES_IN, clock)

generateRefreshToken(payload, clock) ==
    jwt_sign(payload, JWT_REFRESH_SECRET, JWT_REFRESH_EXPIRES_IN, clock)

\* Variant: the catch lets TokenExpiredError through to the caller
verifyAccessToken_Rethrow(token, clock) ==
    LET r == jwt_verify(token, JWT_SECRET, ISSUER, AUDIENCE, clock)
    IN  IF r.ok THEN r.payload
        ELSE IF r.error = "jwt expired" THEN [thrown |-> r.error]
        ELSE Null

\* try { return jwt.verify(...) } catch { return null }
verifyAccessToken(token, clock) ==
    LET r == jwt_verify(token, JWT_SECRET, ISSUER, AUDIENCE, clock)
    IN  IF r.ok THEN r.payload ELSE Null

\* Variant: the refresh verifier checks against the access secret
verifyRefreshToken_AccessSecret(token, clock) ==
    LET r == jwt_verify(token, JWT_SECRET, ISSUER, AUDIENCE, clock)
    IN  IF r.ok THEN r.payload ELSE Null

verifyRefreshToken(token, clock) ==
    LET r == jwt_verify(token, JWT_REFRESH_SECRET, ISSUER, AUDIENCE, clock)
    IN  IF r.ok THEN r.payload ELSE Null

NoHeader == << >>   \* the header is absent (undefined) or the empty string
Space == [space |-> TRUE]
Word(w) == [word |-> w]

\* authorization.split(' '): the chunks between the spaces, empty chunks
\* included.
RECURSIVE SplitOnSpace(_)
SplitOnSpace(s) ==
    IF s = << >> THEN << << >> >>
    ELSE LET rest == SplitOnSpace(Tail(s))
         IN  IF Head(s) = Space
               THEN << << >> >> \o rest
               ELSE << <<Head(s)>> \o Head(rest) >> \o Tail(rest)

\* The token string of a chunk: a chunk of one item is that item; pasting
\* several items together gives a string that is no JWT.
ChunkToken(chunk) == IF Len(chunk) = 1 THEN chunk[1] ELSE Malformed

extractTokenFromHeader(authorization) ==
    IF authorization = NoHeader THEN Null
    ELSE LET parts == SplitOnSpace(authorization)
         IN  IF Len(parts) # 2 \/ parts[1] # <<Word("Bearer")>> THEN Null
             ELSE IF parts[2] = << >> THEN [empty |-> TRUE]
             ELSE ChunkToken(parts[2])

\* !token in the callers: null and the empty string are both falsy
Falsy(token) == token = Null \/ token = [empty |-> TRUE]

-----------------------------------------------------------------------------
(* Character strings *)

Uppers == << "A","B","C","D","E","F","G","H","I","J","K","L","M",
             "N","O","P","Q","R","S","T","U","V","W","X","Y","Z" >>
Lowers == << "a","b","c","d","e","f","g","h","i","j","k","l","m",
             "n","o","p","q","r","s","t","u","v","w","x","y","z" >>
Digits == { "0","1","2","3","4","5","6","7","8","9" }
\* the class [!@#$%^&*(),.?":{}|<>]
Specials == { "!","@","#","$","%","^","&","*","(",")",",",".","?","\"",
              ":","{","}","|","<",">" }
Whitespace == { " ", "\t", "\n" }

Range(f) == { f[i] : i \in DOMAIN f }

\* String.prototype.toLowerCase, one character at a time
UpperSet == Range(Uppers)     \* the class [A-Z]
LowerSet == Range(Lowers)     \* the class [a-z]

LowerOf == [ c \in UpperSet |-> Lowers[CHOOSE i \in DOMAIN Uppers : Uppers[i] = c] ]

ToLowerChar(c) == IF c \in DOMAIN LowerOf THEN LowerOf[c] ELSE c

toLowerCase(str) == [ i \in DOMAIN str |-> ToLowerChar(str[i]) ]

\* /^[^\s@]+@[^\s@]+\.[^\s@]+$/.test(email)
NotInLabel == Whitespace \cup { "@" }     \* the complement of [^\s@]

isValidEmail(email) ==
    \E i \in DOMAIN email :
        /\ 1 < i
        /\ email[i] = "@"
        /\ \A k \in DOMAIN email \ {i} : email[k] \notin NotInLabel
        /\ \E j \in DOMAIN email : i + 1 < j /\ j < Len(email) /\ email[j] = "."

ErrLength  == "Password must be at least 8 characters long"
ErrUpper   == "Password must contain at least one uppercase letter"
ErrLower   == "Password must contain at least one lowercase letter"
ErrDigit   == "Password must contain at least one number"
ErrSpecial == "Password must contain at least one special character"

MinPasswordLength == 8

\* Variant: the rules are checked one after the other and the first violation
\* found is the only one reported
validatePassword_ShortCircuit(password) ==
    LET chars  == Range(password)
        errors == IF Len(password) < MinPasswordLength THEN <<ErrLength>>
                  ELSE IF chars \cap UpperSet = {} THEN <<ErrUpper>>
                  ELSE IF chars \cap LowerSet = {} THEN <<ErrLower>>
                  ELSE IF chars \cap Digits = {} THEN <<ErrDigit>>
                  ELSE IF chars \cap Specials = {} THEN <<ErrSpecial>>
                  ELSE << >>
    IN  [ isValid |-> errors = << >>, errors |-> errors ]

validatePassword(password) ==
    LET chars  == Range(password)
        errors == (IF Len(password) < MinPasswordLength THEN <<ErrLength>> ELSE << >>)
               \o (IF chars \cap UpperSet = {} THEN <<ErrUpper>> ELSE << >>)
               \o (IF chars \cap LowerSet = {} THEN <<ErrLower>> ELSE << >>)
               \o (IF chars \cap Digits = {} THEN <<ErrDigit>> ELSE << >>)
               \o (IF chars \cap Specials = {} THEN <<ErrSpecial>> ELSE << >>)
    IN  [ isValid |-> errors = << >>, errors |-> errors ]

\* expiresIn.match(/^(\d+)([dhm])$/): the two groups, or Null
MatchDuration(expiresIn) ==
    LET n == Len(expiresIn)
    IN  IF /\ n >= 2
           /\ \A i \in 1..(n - 1) : expiresIn[i] \in Digits
           /\ expiresIn[n] \in { "d", "h", "m" }
          THEN [ value |-> SubSeq(expiresIn, 1, n - 1), unit |-> expiresIn[n] ]
          ELSE Null

SevenDays == 7 * 24 * 60 * 60

\* Variant: the unit is looked at, the magnitude is taken for seconds
getTokenExpiration_IgnoreUnit(expiresIn, clock) ==
    LET match == MatchDuration(expiresIn)
    IN  IF match = Null THEN UnixSeconds(clock) + SevenDays
        ELSE UnixSeconds(clock) + parseInt(match.value)

\* getTokenExpiration(expiresIn) called at time clock
getTokenExpiration(expiresIn, clock) ==
    LET match == MatchDuration(expiresIn)
        num   == parseInt(match.value)
    IN  IF match = Null THEN UnixSeconds(clock) + SevenDays
        ELSE IF match.unit = "d" THEN UnixSeconds(clock) + num * 24 * 60 * 60
        ELSE IF match.unit = "h" THEN UnixSeconds(clock) + num * 60 * 60
        ELSE IF match.unit = "m" THEN UnixSeconds(clock) + num * 60
        ELSE UnixSeconds(clock) + SevenDays

\* bcrypt.hash(password, 12) with the salt it draws: the credential string
\* carries the work factor and the salt next to the digest.
saltRounds == 12

\* Variant: bcrypt is given a salt of its caller's instead of drawing one
hashPassword_FixedSalt(password, salt) ==
    [ rounds |-> saltRounds, salt |-> "salt-0",
      digest |-> <<saltRounds, "salt-0", password>> ]

hashPassword(password, salt) ==
    [ rounds |-> saltRounds, salt |-> salt, digest |-> <<saltRounds, salt, password>> ]

\* bcrypt.compare(password, hash): hash again with the credential's own
\* parameters and compare the digests.
comparePassword(password, hash) ==
    hash.digest = <<hash.rounds, hash.salt, password>>

-----------------------------------------------------------------------------
(* dao/userDao.ts: UserDao over the `users` array *)

\* users.findIndex(u => u.id === id), 0 standing for -1
FindIndexById(us, id) ==
    IF \E i \in DOMAIN us : us[i].id = id
      THEN CHOOSE i \in DOMAIN us : us[i].id = id /\ \A j \in 1..(i - 1) : us[j].id # id
      ELSE 0

findUserById(us, id) ==
    LET i == FindIndexById(us, id) IN IF i = 0 THEN Null ELSE us[i]

findUserByEmail(us, email) ==
    LET wanted == toLowerCase(email)
        found  == { i \in DOMAIN us : toLowerCase(us[i].email) = wanted }
    IN  IF found = {} THEN Null
        ELSE us[CHOOSE i \in found : \A j \in found : i <= j]

\* createUser: throws when the e-mail is taken, else appends the new record;
\* id is the uuidv4() drawn and salt the salt bcrypt drew.
createUser(us, userData, id, salt) ==
    IF findUserByEmail(us, userData.email) # Null
      THEN [ ok |-> FALSE, error |-> "User with this email already exists", users |-> us ]
      ELSE LET newUser == [ id          |-> id,
                            email       |-> toLowerCase(userData.email),
                            password    |-> hashPassword(userData.password, salt),
                            lastLoginAt |-> Null ]
           IN  [ ok |-> TRUE, user |-> newUser, users |-> Append(us, newUser) ]

\* new Date() at time clock
Date(clock) == [ time |-> clock ]

\* users[userIndex].stats.lastLoginAt = new Date()
updateLastLogin(us, userId, clock) ==
    LET i == FindIndexById(us, userId)
    IN  IF i = 0 THEN us ELSE [ us EXCEPT ![i].lastLoginAt = Date(clock) ]

\* Variant: splice removes the element after the one found
deleteUser_WrongIndex(us, userId) ==
    LET i == FindIndexById(us, userId)
    IN  IF i = 0 THEN [ ok |-> FALSE, users |-> us ]
        ELSE [ ok |-> TRUE,
               users |-> SubSeq(us, 1, i) \o SubSeq(us, i + 2, Len(us)) ]

\* users.splice(userIndex, 1)
deleteUser(us, userId) ==
    LET i == FindIndexById(us, userId)
    IN  IF i = 0 THEN [ ok |-> FALSE, users |-> us ]
        ELSE [ ok |-> TRUE,
               users |-> SubSeq(us, 1, i - 1) \o SubSeq(us, i + 1, Len(us)) ]

changePassword(us, userId, newPassword, salt) ==
    LET i == FindIndexById(us, userId)
    IN  IF i = 0 THEN [ ok |-> FALSE, users |-> us ]
        ELSE [ ok |-> TRUE,
               users |-> [ us EXCEPT ![i].password = hashPassword(newPassword, salt) ] ]

-----------------------------------------------------------------------------
(* middleware/auth.ts: the request gate *)

\* Math.ceil(a / b) for b > 0
CeilDiv(a, b) == -((-a) \div b)

Max(a, b) == IF a >= b THEN a ELSE b

Clients == { "A", "B" }     \* request.ip

\* A reply: HTTP status, the machine-readable code of an error reply, the
\* identity attached to the request (request.user) and the body's data.
Reply(status, code, user, data) ==
    [ status |-> status, code |-> code, user |-> user, data |-> data ]

\* Variant: the limit is compared with >=
rateLimit_OffByOne(counts, clientIp, clock, maxReq, window) ==
    LET old == counts[clientIp]
        requestInfo ==
            IF old = Null \/ clock > old.resetTime
              THEN [ count |-> 1, resetTime |-> clock + window ]
              ELSE [ old EXCEPT !.count = @ + 1 ]
        limited == requestInfo.count >= maxReq
    IN  [ counts     |-> [ counts EXCEPT ![clientIp] = requestInfo ],
          limited    |-> limited,
          retryAfter |-> IF limited
                           THEN CeilDiv(requestInfo.resetTime - clock, MsPerSec)
                           ELSE Null,
          headers    |-> IF limited THEN Null
                         ELSE [ limit     |-> maxReq,
                                remaining |-> Max(0, maxReq - requestInfo.count),
                                reset     |-> CeilDiv(requestInfo.resetTime, MsPerSec) ] ]

\* Variant: the time left is rounded down to whole seconds
rateLimit_FloorRetry(counts, clientIp, clock, maxReq, window) ==
    LET old == counts[clientIp]
        requestInfo ==
            IF old = Null \/ clock > old.resetTime
              THEN [ count |-> 1, resetTime |-> clock + window ]
              ELSE [ old EXCEPT !.count = @ + 1 ]
        limited == requestInfo.count > maxReq
    IN  [ counts     |-> [ counts EXCEPT ![clientIp] = requestInfo ],
          limited    |-> limited,
          retryAfter |-> IF limited
                           THEN (requestInfo.resetTime - clock) \div MsPerSec
                           ELSE Null,
          headers    |-> IF limited THEN Null
                         ELSE [ limit     |-> maxReq,
                                remaining |-> Max(0, maxReq - requestInfo.count),
                                reset     |-> CeilDiv(requestInfo.resetTime, MsPerSec) ] ]

\* Variant: in a live window the entry read is stored back as it was read,
\* as when another request's write lands between the read and the write
rateLimit_LostUpdate(counts, clientIp, clock, maxReq, window) ==
    LET old == counts[clientIp]
        requestInfo ==
            IF old = Null \/ clock > old.resetTime
              THEN [ count |-> 1, resetTime |-> clock + window ]
              ELSE old
        limited == requestInfo.count + 1 > maxReq
    IN  [ counts     |-> [ counts EXCEPT ![clientIp] = requestInfo ],
          limited    |-> limited,
          retryAfter |-> IF limited
                           THEN CeilDiv(requestInfo.resetTime - clock, MsPerSec)
                           ELSE Null,
          headers    |-> IF limited THEN Null
                         ELSE [ limit     |-> maxReq,
                                remaining |-> Max(0, maxReq - requestInfo.count),
                                reset     |-> CeilDiv(requestInfo.resetTime, MsPerSec) ] ]

\* Variant: a lapsed window gets a new reset time but keeps counting on
rateLimit_KeepCount(counts, clientIp, clock, maxReq, window) ==
    LET old == counts[clientIp]
        requestInfo ==
            IF old = Null
              THEN [ count |-> 1, resetTime |-> clock + window ]
            ELSE IF clock > old.resetTime
              THEN [ count |-> old.count + 1, resetTime |-> clock + window ]
              ELSE [ old EXCEPT !.count = @ + 1 ]
        limited == requestInfo.count > maxReq
    IN  [ counts     |-> [ counts EXCEPT ![clientIp] = requestInfo ],
          limited    |-> limited,
          retryAfter |-> IF limited
                           THEN CeilDiv(requestInfo.resetTime - clock, MsPerSec)
                           ELSE Null,
          headers    |-> IF limited THEN Null
                         ELSE [ limit     |-> maxReq,
                                remaining |-> Max(0, maxReq - requestInfo.count),
                                reset     |-> CeilDiv(requestInfo.resetTime, MsPerSec) ] ]

\* Variant: a request turned down pushes the reset time of its window forward
rateLimit_Sliding(counts, clientIp, clock, maxReq, window) ==
    LET old == counts[clientIp]
        counted ==
            IF old = Null \/ clock > old.resetTime
              THEN [ count |-> 1, resetTime |-> clock + window ]
              ELSE [ old EXCEPT !.count = @ + 1 ]
        limited == counted.count > maxReq
        requestInfo == IF limited THEN [ counted EXCEPT !.resetTime = clock + window ]
                       ELSE counted
    IN  [ counts     |-> [ counts EXCEPT ![clientIp] = requestInfo ],
          limited    |-> limited,
          retryAfter |-> IF limited
                           THEN CeilDiv(requestInfo.resetTime - clock, MsPerSec)
                           ELSE Null,
          headers    |-> IF limited THEN Null
                         ELSE [ limit     |-> maxReq,
                                remaining |-> Max(0, maxReq - requestInfo.count),
                                reset     |-> CeilDiv(requestInfo.resetTime, MsPerSec) ] ]

\* One call of rateLimit: the map it leaves behind, whether it answered 429,
\* the retryAfter of that answer and the headers it set.
rateLimit(counts, clientIp, clock, maxReq, window) ==
    LET old == counts[clientIp]
        requestInfo ==
            IF old = Null \/ clock > old.resetTime
              THEN [ count |-> 1, resetTime |-> clock + window ]
              ELSE [ old EXCEPT !.count = @ + 1 ]
        limited == requestInfo.count > maxReq
    IN  [ counts     |-> [ counts EXCEPT ![clientIp] = requestInfo ],
          limited    |-> limited,
          retryAfter |-> IF limited
                           THEN CeilDiv(requestInfo.resetTime - clock, MsPerSec)
                           ELSE Null,
          headers    |-> IF limited THEN Null
                         ELSE [ limit     |-> maxReq,
                                remaining |-> Max(0, maxReq - requestInfo.count),
                                reset     |-> CeilDiv(requestInfo.resetTime, MsPerSec) ] ]

\* Variant: the middleware does not look the user up
authenticateToken_NoLookup(authorization, us, clock) ==
    LET token == extractTokenFromHeader(authorization)
    IN  IF Falsy(token) THEN Reply(401, "MISSING_TOKEN", Null, Null)
        ELSE LET decoded == verifyAccessToken(token, clock)
             IN  IF "thrown" \in DOMAIN decoded
                   THEN Reply(401, "AUTH_FAILED", Null, Null)
                 ELSE IF decoded = Null
                   THEN Reply(401, "INVALID_TOKEN", Null, Null)
                 ELSE Reply(0, "", [ userId |-> decoded.userId,
                                     email  |-> decoded.email ], Null)

\* authenticateToken: the 401 it sends, or status 0 (the request goes on to
\* its handler) with request.user set.  A callee that throws lands in the
\* catch block.
authenticateToken(authorization, us, clock) ==
    LET token == extractTokenFromHeader(authorization)
    IN  IF Falsy(token) THEN Reply(401, "MISSING_TOKEN", Null, Null)
        ELSE LET decoded == verifyAccessToken(token, clock)
             IN  IF "thrown" \in DOMAIN decoded
                   THEN Reply(401, "AUTH_FAILED", Null, Null)
                 ELSE IF decoded = Null
                   THEN Reply(401, "INVALID_TOKEN", Null, Null)
                 ELSE IF findUserById(us, decoded.userId) = Null
                   THEN Reply(401, "USER_NOT_FOUND", Null, Null)
                 ELSE Reply(0, "", [ userId |-> decoded.userId,
                                     email  |-> decoded.email ], Null)

-----------------------------------------------------------------------------
(* routes/auth.ts: what each handler does once the gate let the request in. *)
(* An outcome is the user directory the handler leaves, whether it drew a   *)
(* uuid, and the reply.                                                     *)

Outcome(us, drew, reply) == [ users |-> us, drew |-> drew, reply |-> reply ]

WithoutPassword(user) ==
    [ id |-> user.id, email |-> user.email, lastLoginAt |-> user.lastLoginAt ]

\* The token pair of register, login and refresh
TokenPair(user, clock) ==
    [ token        |-> generateAccessToken([userId |-> user.id, email |-> user.email], clock),
      refreshToken |-> generateRefreshToken([userId |-> user.id, email |-> user.email], clock) ]

\* Variant: the password is looked at before the e-mail
register_PasswordFirst(us, body, id, salt, clock) ==
    IF ~validatePassword(body.password).isValid
      THEN Outcome(us, FALSE, Reply(400, "WEAK_PASSWORD", Null,
                   [ details |-> validatePassword(body.password).errors ]))
    ELSE IF ~isValidEmail(body.email)
      THEN Outcome(us, FALSE, Reply(400, "INVALID_EMAIL", Null, Null))
    ELSE LET created == createUser(us, body, id, salt)
         IN  IF ~created.ok
               THEN Outcome(us, FALSE, Reply(409, "USER_EXISTS", Null, Null))
               ELSE Outcome(created.users, TRUE,
                      Reply(201, "", Null,
                            [ user         |-> WithoutPassword(created.user),
                              token        |-> TokenPair(created.user, clock).token,
                              refreshToken |-> TokenPair(created.user, clock).refreshToken,
                              expiresIn    |-> getTokenExpiration(JWT_EXPIRES_IN, clock) ]))

\* POST /register
register(us, body, id, salt, clock) ==
    IF ~isValidEmail(body.email)
      THEN Outcome(us, FALSE, Reply(400, "INVALID_EMAIL", Null, Null))
    ELSE IF ~validatePassword(body.password).isValid
      THEN Outcome(us, FALSE, Reply(400, "WEAK_PASSWORD", Null,
                   [ details |-> validatePassword(body.password).errors ]))
    ELSE LET created == createUser(us, body, id, salt)
         IN  IF ~created.ok
               THEN Outcome(us, FALSE, Reply(409, "USER_EXISTS", Null, Null))
               ELSE Outcome(created.users, TRUE,
                      Reply(201, "", Null,
                            [ user         |-> WithoutPassword(created.user),
                              token        |-> TokenPair(created.user, clock).token,
                              refreshToken |-> TokenPair(created.user, clock).refreshToken,
                              expiresIn    |-> getTokenExpiration(JWT_EXPIRES_IN, clock) ]))

\* A reply of login that refuses: reply.status(status).send({ success: false,
\* error, code })
Refused(status, error, code) ==
    [ status |-> status, code |-> code, user |-> Null, data |-> Null, error |-> error ]

\* Variant: an unknown e-mail is told apart from a wrong password
login_TellsUnknown(us, body, clock) ==
    LET user == findUserByEmail(us, body.email)
    IN  IF user = Null
          THEN Outcome(us, FALSE, Refused(401, "User not found", "USER_NOT_FOUND"))
        ELSE IF ~comparePassword(body.password, user.password)
          THEN Outcome(us, FALSE,
                       Refused(401, "Invalid email or password", "INVALID_CREDENTIALS"))
        ELSE LET updated     == updateLastLogin(us, user.id, clock)
                 tokenExpiry == IF body.rememberMe THEN <<"3", "0", "d">> ELSE <<"7", "d">>
             IN  Outcome(updated, FALSE,
                   Reply(200, "", Null,
                         [ user         |-> WithoutPassword(findUserById(updated, user.id)),
                           token        |-> TokenPair(user, clock).token,
                           refreshToken |-> TokenPair(user, clock).refreshToken,
                           expiresIn    |-> getTokenExpiration(tokenExpiry, clock) ]))

\* POST /login.  updateLastLogin writes into the record that `user` refers
\* to, so the user of the reply shows the new lastLoginAt.
login(us, body, clock) ==
    LET user == findUserByEmail(us, body.email)
    IN  IF user = Null
          THEN Outcome(us, FALSE,
                       Refused(401, "Invalid email or password", "INVALID_CREDENTIALS"))
        ELSE IF ~comparePassword(body.password, user.password)
          THEN Outcome(us, FALSE,
                       Refused(401, "Invalid email or password", "INVALID_CREDENTIALS"))
        ELSE LET updated     == updateLastLogin(us, user.id, clock)
                 tokenExpiry == IF body.rememberMe THEN <<"3", "0", "d">> ELSE <<"7", "d">>
             IN  Outcome(updated, FALSE,
                   Reply(200, "", Null,
                         [ user         |-> WithoutPassword(findUserById(updated, user.id)),
                           token        |-> TokenPair(user, clock).token,
                           refreshToken |-> TokenPair(user, clock).refreshToken,
                           expiresIn    |-> getTokenExpiration(tokenExpiry, clock) ]))

\* POST /refresh
refresh(us, refreshToken, clock) ==
    LET decoded == verifyRefreshToken(refreshToken, clock)
    IN  IF decoded = Null
          THEN Outcome(us, FALSE, Reply(401, "INVALID_REFRESH_TOKEN", Null, Null))
        ELSE LET user == findUserById(us, decoded.userId)
             IN  IF user = Null
                   THEN Outcome(us, FALSE, Reply(401, "USER_NOT_FOUND", Null, Null))
                   ELSE Outcome(us, FALSE,
                          Reply(200, "", Null,
                                [ token        |-> TokenPair(user, clock).token,
                                  refreshToken |-> TokenPair(user, clock).refreshToken,
                                  expiresIn    |-> getTokenExpiration(JWT_EXPIRES_IN, clock) ]))

\* A route behind preHandler: [authenticateToken]: the handler runs, with
\* request.user as the middleware set it, only when the middleware sent no
\* reply.
Guarded(us, authorization, clock, handler(_)) ==
    LET auth == authenticateToken(authorization, us, clock)
    IN  IF auth.status # 0 THEN Outcome(us, FALSE, auth) ELSE handler(auth.user)

\* Variant: logging out disables the account
logoutHandler_Revoke(us, identity) ==
    Outcome(deleteUser(us, identity.userId).users, FALSE, Reply(200, "", identity, Null))

\* POST /logout
logoutHandler(us, identity) ==
    Outcome(us, FALSE, Reply(200, "", identity, Null))

logout(us, authorization, clock) ==
    Guarded(us, authorization, clock, LAMBDA identity : logoutHandler(us, identity))

\* GET /me
meHandler(us, identity) ==
    LET user == findUserById(us, identity.userId)
    IN  IF user = Null
          THEN Outcome(us, FALSE, Reply(404, "USER_NOT_FOUND", identity, Null))
          ELSE Outcome(us, FALSE,
                 Reply(200, "", identity, [ user |-> WithoutPassword(user) ]))

me(us, authorization, clock) ==
    Guarded(us, authorization, clock, LAMBDA identity : meHandler(us, identity))

\* POST /change-password
changePasswordHandler(us, identity, body, salt) ==
    LET user == findUserById(us, identity.userId)
    IN  IF user = Null
          THEN Outcome(us, FALSE, Reply(404, "USER_NOT_FOUND", identity, Null))
        ELSE IF ~comparePassword(body.currentPassword, user.password)
          THEN Outcome(us, FALSE, Reply(400, "INVALID_CURRENT_PASSWORD", identity, Null))
        ELSE IF ~validatePassword(body.newPassword).isValid
          THEN Outcome(us, FALSE, Reply(400, "WEAK_PASSWORD", identity,
                       [ details |-> validatePassword(body.newPassword).errors ]))
        ELSE LET changed == changePassword(us, identity.userId, body.newPassword, salt)
             IN  IF ~changed.ok
                   THEN Outcome(us, FALSE, Reply(500, "PASSWORD_CHANGE_FAILED", identity, Null))
                   ELSE Outcome(changed.users, FALSE, Reply(200, "", identity, Null))

changePasswordRoute(us, authorization, body, salt, clock) ==
    Guarded(us, authorization, clock,
            LAMBDA identity : changePasswordHandler(us, identity, body, salt))

\* DELETE /account
deleteAccountHandler(us, identity) ==
    LET removed == deleteUser(us, identity.userId)
    IN  IF ~removed.ok
          THEN Outcome(us, FALSE, Reply(404, "USER_NOT_FOUND", identity, Null))
          ELSE Outcome(removed.users, FALSE, Reply(200, "", identity, Null))

deleteAccount(us, authorization, clock) ==
    Guarded(us, authorization, clock, LAMBDA identity : deleteAccountHandler(us, identity))

-----------------------------------------------------------------------------
(* Requests *)

Str6(a, b, c, d, e, f) == <<a, b, c, d, e, f>>

EmailA      == Str6("a", "@", "x", ".", "i", "o")
EmailAUpper == Str6("A", "@", "x", ".", "i", "o")
EmailB      == Str6("b", "@", "x", ".", "i", "o")
EmailBad    == <<"a", "@", "x">>
Emails      == { EmailA, EmailAUpper, EmailB, EmailBad }

PwStrong == <<"S", "t", "r", "0", "n", "g", "!", "P", "a", "s", "s">>
PwOther  == <<"N", "3", "w", "!", "P", "a", "s", "s">>
PwWeak   == <<"w", "e", "a", "k">>
Passwords == { PwStrong, PwOther, PwWeak }

\* The salt bcrypt draws; nothing the gate or the token manager does depends
\* on which salt a credential carries.
Salts == { "salt-1" }

Ids == 1..MaxIds

\* Tokens minted elsewhere that a client may present, for any user id: one
\* that carries everything verifyAccessToken asks for, and the same token with
\* one thing wrong: signed with the refresh secret, signed with a key of the
\* sender's own, another issuer, another audience.
MintedFor(id, exp, iss, aud, signer) ==
    [ payload |-> [ userId |-> id, email |-> EmailA, iat |-> 0, exp |-> exp,
                    iss |-> iss, aud |-> aud ],
      sig |-> signer ]

LastExp == MaxSec + 1   \* an expiry that the clock of the model does not reach

ForeignTokens ==
    { MintedFor(1, exp, ISSUER, AUDIENCE, JWT_SECRET) : exp \in 1..LastExp }
    \cup { MintedFor(id, LastExp, ISSUER, AUDIENCE, signer) :
              id \in Ids, signer \in { JWT_SECRET, JWT_REFRESH_SECRET } }
    \cup { MintedFor(1, LastExp, ISSUER, AUDIENCE, "forged"),
           MintedFor(1, LastExp, "other-api", AUDIENCE, JWT_SECRET),
           MintedFor(1, LastExp, ISSUER, "other-frontend", JWT_SECRET) }

\* The tokens of the reply the client got last
RepliedTokens ==
    IF last.reply.data # Null /\ "token" \in DOMAIN last.reply.data
      THEN { last.reply.data.token, last.reply.data.refreshToken }
      ELSE {}

Tokens == ForeignTokens \cup RepliedTokens \cup { Malformed }

AccessHeader(token) == <<Word("Bearer"), Space, token>>

\* Authorization header values
Headers ==
    { NoHeader, <<Word("Bearer")>>, <<Word("Bearer"), Space>> }
    \cup { AccessHeader(t) : t \in Tokens }
    \cup { <<Word("Basic"), Space, MintedFor(1, LastExp, ISSUER, AUDIENCE, JWT_SECRET)>>,
           <<Word("bearer"), Space, MintedFor(1, LastExp, ISSUER, AUDIENCE, JWT_SECRET)>>,
           <<Word("Bearer"), Space, MintedFor(1, LastExp, ISSUER, AUDIENCE, JWT_SECRET),
             Space, Word("x")>> }

-----------------------------------------------------------------------------
(* The server *)

\* What the rate limiter did with a request: the map entry it found, whether
\* it answered 429, the retryAfter of that answer, the headers it set.
Gate(found, gate) ==
    [ found |-> found, limited |-> gate.limited,
      retryAfter |-> gate.retryAfter, headers |-> gate.headers ]

\* The places for concurrent UserDao calls
Slots == 1..MaxCalls

NoGate == Gate(Null, [ limited |-> FALSE, retryAfter |-> Null, headers |-> Null ])

Init ==
    /\ now = 0
    /\ users = << >>
    /\ uuidCount = 0
    /\ requestCounts = [ ip \in Clients |-> Null ]
    /\ passed = [ ip \in Clients |-> 0 ]
    /\ deleted = {}
    /\ last = [ op |-> "none", ip |-> "A", gate |-> NoGate,
                reply |-> Reply(0, "", Null, Null) ]
    /\ calls = [ c \in Slots |-> Null ]
    /\ evaluated = Null
    /\ hashed = << >>
    /\ dreamHistory = << >>

IdsOf(us) == { us[i].id : i \in DOMAIN us }

\* The account a successful DELETE /account removed: the id deleteUser was
\* called with and the e-mail stored under it.
Removed(op, reply) ==
    IF op = "delete-account" /\ reply.status = 200
      THEN { [ id |-> reply.user.userId,
               email |-> findUserById(users, reply.user.userId).email ] }
      ELSE {}

\* The count of a live window is followed up to maxRequests + CountSlack
Countable(clientIp) ==
    IF requestCounts[clientIp] = Null THEN TRUE
    ELSE IF now > requestCounts[clientIp].resetTime THEN TRUE
    ELSE requestCounts[clientIp].count < maxRequests + CountSlack

\* A request to a route of authRoutes: the preHandler hook runs rateLimit, and
\* the rest of the chain (whose outcome is out) runs only when the hook sent
\* no reply.
Serve(op, clientIp, out) ==
    LET gate == rateLimit(requestCounts, clientIp, now, maxRequests, windowMs)
        sameWindow == /\ requestCounts[clientIp] # Null
                      /\ gate.counts[clientIp].resetTime = requestCounts[clientIp].resetTime
    IN  /\ Countable(clientIp)
        /\ requestCounts' = gate.counts
        /\ passed' = [ passed EXCEPT ![clientIp] =
                         (IF sameWindow THEN @ ELSE 0) + (IF gate.limited THEN 0 ELSE 1) ]
        /\ IF gate.limited
             THEN /\ last' = [ op |-> op, ip |-> clientIp,
                               gate |-> Gate(requestCounts[clientIp], gate),
                               reply |-> Reply(429, "RATE_LIMIT_EXCEEDED", Null,
                                               [ retryAfter |-> gate.retryAfter ]) ]
                  /\ UNCHANGED <<users, uuidCount, deleted>>
             ELSE /\ users' = out.users
                  /\ uuidCount' = uuidCount + (IF out.drew THEN 1 ELSE 0)
                  /\ deleted' = deleted \cup Removed(op, out.reply)
                  /\ last' = [ op |-> op, ip |-> clientIp,
                               gate |-> Gate(requestCounts[clientIp], gate),
                               reply |-> out.reply ]
        /\ UNCHANGED <<now, calls, evaluated, hashed, dreamHistory>>

\* Time passes, up to one of the given instants
TickTo(instants) ==
    /\ \E t \in instants : t > now /\ now' = t
    /\ UNCHANGED <<users, uuidCount, requestCounts, passed, deleted, last,
                   calls, evaluated, hashed, dreamHistory>>

Tick == TickTo(WholeSeconds)

TickMs == TickTo(Instants)

Register(clientIp, email, password, salt) ==
    LET out == register(users, [email |-> email, password |-> password],
                        uuidCount + 1, salt, now)
    IN  /\ out.drew => (uuidCount < MaxIds /\ Len(users) < MaxUsers)
        /\ Serve("register", clientIp, out)

Login(clientIp, email, password, rememberMe) ==
    Serve("login", clientIp,
          login(users, [ email |-> email, password |-> password,
                         rememberMe |-> rememberMe ], now))

Refresh(clientIp, token) ==
    Serve("refresh", clientIp, refresh(users, token, now))

Logout(clientIp, authorization) ==
    Serve("logout", clientIp, logout(users, authorization, now))

Me(clientIp, authorization) ==
    Serve("me", clientIp, me(users, authorization, now))

ChangePassword(clientIp, authorization, currentPassword, newPassword, salt) ==
    Serve("change-password", clientIp,
          changePasswordRoute(users, authorization,
                              [ currentPassword |-> currentPassword,
                                newPassword |-> newPassword ], salt, now))

DeleteAccount(clientIp, authorization) ==
    Serve("delete-account", clientIp, deleteAccount(users, authorization, now))

\* The routes are driven from one address; SpecGate drives the gate from
\* every address and at millisecond resolution.  Spec sends /login the
\* password that no account can have, so that the directory it explores is
\* the one register, change-password and delete make; SpecAccounts sends
\* /login every credential.
Callers == { "A" }

\* GET /me is sent every header; the other guarded routes, which sit behind
\* the same middleware, are sent no header, a token signed with the access
\* secret for this service that outlives the clock, or one that expires
\* after the first second.
KeyedHeaders ==
    { NoHeader, AccessHeader(MintedFor(1, 1, ISSUER, AUDIENCE, JWT_SECRET)) }
    \cup { AccessHeader(MintedFor(id, LastExp, ISSUER, AUDIENCE, JWT_SECRET)) : id \in Ids }

Next ==
    \/ Tick
    \/ \E ip \in Callers, e \in Emails, p \in Passwords, salt \in Salts :
          Register(ip, e, p, salt)
    \/ \E ip \in Callers, e \in Emails : Login(ip, e, PwWeak, FALSE)
    \/ \E ip \in Callers, t \in Tokens : Refresh(ip, t)
    \/ \E ip \in Callers, h \in KeyedHeaders : Logout(ip, h)
    \/ \E ip \in Callers, h \in Headers : Me(ip, h)
    \/ \E ip \in Callers, h \in KeyedHeaders, cur \in Passwords \ { PwWeak },
          new \in Passwords \ { PwStrong }, salt \in Salts :
          ChangePassword(ip, h, cur, new, salt)
    \/ \E ip \in Callers, h \in KeyedHeaders : DeleteAccount(ip, h)

Spec == Init /\ [][Next]_vars

NextAccounts ==
    \/ Tick
    \/ \E ip \in Callers, e \in Emails, p \in Passwords, salt \in Salts :
          Register(ip, e, p, salt)
    \/ \E ip \in Callers, e \in Emails, p \in Passwords, rememberMe \in BOOLEAN :
          Login(ip, e, p, rememberMe)
    \/ \E ip \in Callers, t \in Tokens : Refresh(ip, t)

SpecAccounts == Init /\ [][NextAccounts]_vars

NextGate ==
    \/ TickMs
    \/ \E ip \in Clients : Me(ip, NoHeader)
    \/ \E ip \in Clients : Logout(ip, NoHeader)

SpecGate == Init /\ [][NextGate]_vars

-----------------------------------------------------------------------------
(* Properties *)

\* The reply holds a token pair (register 201, login 200, refresh 200)
Issued == last.reply.data # Null /\ "token" \in DOMAIN last.reply.data

\* The identity claim the pair of a register or login reply was made for
IssuedFor == [ userId |-> last.reply.data.user.id, email |-> last.reply.data.user.email ]

\* C1: the access token of a register or login reply, verified at any time
\* before its expiry, decodes to the userId and email it was generated for.
C1_RoundTrip ==
    ( /\ Issued
      /\ last.op \in { "register", "login" }
      /\ UnixSeconds(now) < last.reply.data.token.payload.exp )
    => LET decoded == verifyAccessToken(last.reply.data.token, now)
       IN  /\ decoded # Null
           /\ decoded.userId = IssuedFor.userId
           /\ decoded.email = IssuedFor.email

\* C8: both tokens of every reply that issues tokens carry the issuer and
\* the audience that the verifiers require.
C8_IssuerAudienceEmbedded ==
    Issued =>
        \A t \in { last.reply.data.token, last.reply.data.refreshToken } :
            /\ "iss" \in DOMAIN t.payload /\ t.payload.iss = ISSUER
            /\ "aud" \in DOMAIN t.payload /\ t.payload.aud = AUDIENCE

\* C5: no token is accepted by both verifiers, the tokens this server issues
\* are rejected by the verifier of the other kind, and no token opens both
\* the guarded routes and the refresh endpoint.
C5_NoCrossKind ==
    /\ Issued => /\ verifyRefreshToken(last.reply.data.token, now) = Null
                 /\ verifyAccessToken(last.reply.data.refreshToken, now) = Null
    /\ \A t \in Tokens :
          /\ verifyAccessToken(t, now) = Null \/ verifyRefreshToken(t, now) = Null
          /\ authenticateToken(AccessHeader(t), users, now).status = 0
                => refresh(users, t, now).reply.code = "INVALID_REFRESH_TOKEN"
          /\ refresh(users, t, now).reply.status = 200
                => authenticateToken(AccessHeader(t), users, now).code = "INVALID_TOKEN"

\* A refresh was granted for a token that the guarded routes turn down
C5_Witness ==
    /\ last.op = "refresh" /\ last.reply.status = 200
    /\ \E t \in ForeignTokens :
          /\ refresh(users, t, now).reply.status = 200
          /\ authenticateToken(AccessHeader(t), users, now).code = "INVALID_TOKEN"

HasExpiry(t) == IsJwt(t) /\ "exp" \in DOMAIN t.payload

\* C6: a token verified at a time after its exp is null for both verifiers,
\* and a token that is null because it expired is null in every later state.
C6_ExpiredStaysExpired ==
    /\ [](\A t \in Tokens :
            (HasExpiry(t) /\ UnixSeconds(now) > t.payload.exp)
              => /\ verifyAccessToken(t, now) = Null
                 /\ verifyRefreshToken(t, now) = Null)
    /\ [][now' # now => \A t \in Tokens :
            /\ jwt_verify(t, JWT_SECRET, ISSUER, AUDIENCE, now)
                  = [ok |-> FALSE, error |-> "jwt expired"]
                => verifyAccessToken(t, now') = Null
            /\ jwt_verify(t, JWT_REFRESH_SECRET, ISSUER, AUDIENCE, now)
                  = [ok |-> FALSE, error |-> "jwt expired"]
                => verifyRefreshToken(t, now') = Null]_vars

\* A token that verified at time 0 is past its exp, and a request was turned
\* down as INVALID_TOKEN
C6_Witness ==
    /\ last.op = "me" /\ last.reply.code = "INVALID_TOKEN"
    /\ \E t \in ForeignTokens :
          /\ verifyAccessToken(t, 0) # Null
          /\ UnixSeconds(now) > t.payload.exp
          /\ verifyAccessToken(t, now) = Null

\* The causes for which verification fails
BadSignature(t, secret) == IsJwt(t) /\ t.sig # secret
WrongIssuer(t) == IsJwt(t) /\ ~("iss" \in DOMAIN t.payload /\ t.payload.iss = ISSUER)
WrongAudience(t) == IsJwt(t) /\ ~("aud" \in DOMAIN t.payload /\ t.payload.aud = AUDIENCE)
Lapsed(t, clock) == HasExpiry(t) /\ UnixSeconds(clock) >= t.payload.exp
Fails(t, secret, clock) ==
    \/ ~IsJwt(t)
    \/ BadSignature(t, secret)
    \/ WrongIssuer(t)
    \/ WrongAudience(t)
    \/ Lapsed(t, clock)

\* C7: each verifier returns null for a token with any cause of failure and
\* the token's payload for a token with none; it has no third outcome.
C7_ClaimOrNull ==
    \A t \in Tokens :
        /\ verifyAccessToken(t, now) = IF Fails(t, JWT_SECRET, now) THEN Null ELSE t.payload
        /\ verifyRefreshToken(t, now) = IF Fails(t, JWT_REFRESH_SECRET, now) THEN Null ELSE t.payload

\* Every cause of failure is at hand among the tokens, next to a token that
\* verifies, and a request was turned down as INVALID_TOKEN
C7_Witness ==
    /\ last.op = "me" /\ last.reply.code = "INVALID_TOKEN"
    /\ \E t \in Tokens : ~IsJwt(t)
    /\ \E t \in Tokens : BadSignature(t, JWT_SECRET) /\ ~WrongIssuer(t) /\ ~Lapsed(t, now)
    /\ \E t \in Tokens : WrongIssuer(t) /\ ~WrongAudience(t) /\ ~BadSignature(t, JWT_SECRET)
    /\ \E t \in Tokens : WrongAudience(t) /\ ~WrongIssuer(t) /\ ~BadSignature(t, JWT_SECRET)
    /\ \E t \in Tokens : Lapsed(t, now) /\ ~WrongIssuer(t) /\ ~BadSignature(t, JWT_SECRET)
    /\ \E t \in Tokens : IsJwt(t) /\ verifyAccessToken(t, now) = t.payload

Min(a, b) == IF a <= b THEN a ELSE b

\* C3: in the stored window of every address the requests that passed are
\* the first maxRequests ones: min(count, maxRequests) of the count requests
\* passed, and the request handled last was answered 429 RATE_LIMIT_EXCEEDED
\* exactly when it was beyond the first maxRequests of its window.
C3_AtMostMaxPass ==
    /\ \A ip \in Clients :
          requestCounts[ip] # Null
            => /\ passed[ip] <= maxRequests
               /\ passed[ip] = Min(requestCounts[ip].count, maxRequests)
    /\ last.op # "none"
          => /\ last.gate.limited <=> requestCounts[last.ip].count > maxRequests
             /\ last.gate.limited <=> (last.reply.status = 429 /\ last.reply.code = "RATE_LIMIT_EXCEEDED")

\* The request after the first maxRequests of a live window was the first one
\* turned down
C3_Witness ==
    /\ last.gate.limited
    /\ last.reply.status = 429
    /\ requestCounts[last.ip].count = maxRequests + 1
    /\ passed[last.ip] = maxRequests
    /\ now <= requestCounts[last.ip].resetTime

\* A request from ip was handled in this step
RequestFrom(ip) == requestCounts'[ip] # requestCounts[ip]

\* C4: the first request of an address after the reset time of its window
\* stores count 1 and reset time now + windowMs and passes.
C4_LapsedWindowRestarts ==
    [][\A ip \in Clients :
          ( /\ RequestFrom(ip)
            /\ requestCounts[ip] # Null
            /\ now > requestCounts[ip].resetTime )
          => /\ requestCounts'[ip] = [ count |-> 1, resetTime |-> now + windowMs ]
             /\ passed'[ip] = 1
             /\ ~last'.gate.limited
             /\ last'.reply.status # 429]_vars

\* A window that had counted beyond maxRequests lapsed, and the next request
\* started over at 1
C4_Witness ==
    /\ last.gate.found # Null
    /\ last.gate.found.count > maxRequests + 1
    /\ last.gate.found.resetTime < now
    /\ requestCounts[last.ip] = [ count |-> 1, resetTime |-> now + windowMs ]
    /\ ~last.gate.limited

GuardedOps == { "logout", "me", "change-password", "delete-account" }

\* The token of a header that is exactly Bearer, one space, one chunk
BearerToken(h) ==
    IF Len(h) = 3 /\ h[1] = Word("Bearer") /\ h[2] = Space /\ h[3] # Space
      THEN h[3] ELSE Null

\* The reply of the first step that fails, or the identity to attach
FirstFailure(h) ==
    LET t == BearerToken(h)
    IN  IF t = Null THEN Reply(401, "MISSING_TOKEN", Null, Null)
        ELSE IF verifyAccessToken(t, now) = Null THEN Reply(401, "INVALID_TOKEN", Null, Null)
        ELSE IF \A i \in DOMAIN users : users[i].id # t.payload.userId
          THEN Reply(401, "USER_NOT_FOUND", Null, Null)
        ELSE Reply(0, "", [ userId |-> t.payload.userId, email |-> t.payload.email ], Null)

\* C2: for every header, authenticateToken answers with the 401 of the first
\* failing step (no bearer token, verification null, no user with the id) and
\* sets request.user, to the token's userId and email, only when none fails;
\* so every 401 of a guarded route carries no identity and every reply of a
\* handler carries the identity of a token.
C2_FirstFailingStep ==
    /\ \A h \in Headers : authenticateToken(h, users, now) = FirstFailure(h)
    /\ (last.op \in GuardedOps /\ ~last.gate.limited)
          => IF last.reply.status = 401
               THEN /\ last.reply.user = Null
                    /\ last.reply.code \in { "MISSING_TOKEN", "INVALID_TOKEN", "USER_NOT_FOUND" }
               ELSE \E t \in ForeignTokens :
                       last.reply.user = [ userId |-> t.payload.userId,
                                           email |-> t.payload.email ]

\* A token verified, no user has its id, and the request was answered
\* 401 USER_NOT_FOUND without an identity
C2_Witness ==
    /\ last.op = "me" /\ last.reply.status = 401
    /\ last.reply.code = "USER_NOT_FOUND" /\ last.reply.user = Null
    /\ \E t \in Tokens :
          /\ verifyAccessToken(t, now) # Null
          /\ authenticateToken(AccessHeader(t), users, now).code = "USER_NOT_FOUND"

DeletedIds == { d.id : d \in deleted }

Accepted(t, us, clock) == authenticateToken(AccessHeader(t), us, clock).status = 0

\* A request to the route op was handled in this step
Handled(op) == requestCounts' # requestCounts /\ last'.op = op

\* C10: a logout changes nothing but the rate-limit entry of its own address;
\* and no step, a logout or a change of password included, makes the gate
\* turn down a token it accepted, while the token is unexpired and a user
\* with its id exists.
C10_NoRevocation ==
    [][ /\ Handled("logout")
            => /\ users' = users /\ uuidCount' = uuidCount /\ deleted' = deleted
               /\ \A ip \in Clients \ { last'.ip } :
                     requestCounts'[ip] = requestCounts[ip] /\ passed'[ip] = passed[ip]
               /\ requestCounts'[last'.ip] =
                     rateLimit(requestCounts, last'.ip, now, maxRequests, windowMs).counts[last'.ip]
        /\ (users' # users \/ now' # now)
            => \A t \in Tokens :
                  ( /\ Accepted(t, users, now)
                    /\ ~Lapsed(t, now')
                    /\ t.payload.userId \in IdsOf(users') )
                  => Accepted(t, users', now') ]_vars

\* A logout went through, and the token of the identity it ran under is
\* still accepted
C10_Witness ==
    /\ last.op = "logout" /\ last.reply.status = 200
    /\ \E t \in Tokens :
          /\ Accepted(t, users, now)
          /\ t.payload.userId = last.reply.user.userId

-----------------------------------------------------------------------------
(* The request gate under concurrent requests *)

\* A request of ip went through rateLimit in this step
Arrived(ip) ==
    /\ now' = now
    /\ last'.ip = ip
    /\ <<requestCounts, passed, last>>' # <<requestCounts, passed, last>>

\* C11: rateLimit reads and writes the map in one step, so however the
\* requests of the clients interleave, every request of an address in its
\* live window adds exactly one to the stored count of that address and
\* touches no other address, the first request of an address stores 1, and
\* a request that finds maxRequests or more counted does not pass.
C11_CountsEveryRequest ==
    [][\A ip \in Clients :
          Arrived(ip)
          => /\ \A other \in Clients \ {ip} :
                    requestCounts'[other] = requestCounts[other]
             /\ requestCounts[ip] = Null => requestCounts'[ip].count = 1
             /\ (requestCounts[ip] # Null /\ now <= requestCounts[ip].resetTime)
                  => /\ requestCounts'[ip].count = requestCounts[ip].count + 1
                     /\ requestCounts'[ip].resetTime = requestCounts[ip].resetTime
                     /\ passed'[ip] <= maxRequests
                     /\ requestCounts[ip].count >= maxRequests
                          => (last'.gate.limited /\ passed'[ip] = passed[ip])]_vars

\* Both addresses sent a burst at one instant: their windows began now, the
\* requests of A beyond maxRequests were turned down while B was counted too
C11_Witness ==
    /\ \A ip \in Clients : /\ requestCounts[ip] # Null
                            /\ requestCounts[ip].resetTime = now + windowMs
    /\ requestCounts["A"].count = maxRequests + 1
    /\ requestCounts["B"].count >= 2
    /\ passed["A"] = maxRequests
    /\ last.ip = "A"
    /\ last.gate.limited

\* C12: every request that went through rateLimit, a rejected one included,
\* got the headers X-RateLimit-Limit = maxRequests, X-RateLimit-Remaining =
\* max(0, maxRequests - count) and X-RateLimit-Reset = the reset time in unix
\* seconds, and a 429 reply carries retryAfter in its body.
C12_HeadersOnEveryRequest ==
    last.op # "none"
    => LET info == requestCounts[last.ip]
       IN  /\ last.gate.headers # Null
           /\ last.gate.headers.limit = maxRequests
           /\ last.gate.headers.remaining = Max(0, maxRequests - info.count)
           /\ last.gate.headers.remaining >= 0
           /\ last.gate.headers.reset = CeilDiv(info.resetTime, MsPerSec)
           /\ last.reply.status = 429 => "retryAfter" \in DOMAIN last.reply.data

-----------------------------------------------------------------------------
(* AuthUtils called directly: the arguments are drawn at the start, the    *)
(* actions make the call                                                   *)

MaxHeaderLen == 4   \* items of an Authorization header value
MaxSpecLen == 3     \* characters of an expiresIn string
MaxHashes == 2      \* calls of hashPassword that are followed

Pending == [pending |-> TRUE]

\* The call that is about to be made
Call(fn, input) == [ fn |-> fn, input |-> input, output |-> Pending ]

AToken == Word("abc.def.ghi")

HeaderItems == { Space, Word("Bearer"), Word("bearer"), Word("Basic"), AToken }

\* Header values up to MaxHeaderLen items, chunks separated by spaces
HeaderInputs ==
    { h \in UNION { [1..n -> HeaderItems] : n \in 0..MaxHeaderLen } :
        \A i \in 1..(Len(h) - 1) : h[i] = Space \/ h[i + 1] = Space }

\* Passwords with any selection of the four character classes, in either
\* order, as they are and filled up with characters of no class to one below
\* and to exactly the minimum length
ClassSamples == << "Q", "z", "5", "?" >>

Filler == { "_", "~" }

RECURSIVE Reverse(_)
Reverse(s) == IF s = << >> THEN << >> ELSE Append(Reverse(Tail(s)), Head(s))

Chosen(classes) == SelectSeq(ClassSamples, LAMBDA c : c \in classes)

PadTo(s, n, c) == s \o [ i \in 1..(n - Len(s)) |-> c ]

PasswordInputs ==
    { PwStrong, PwOther, PwWeak }
    \cup { PadTo(core, n, c) :
              core \in { Chosen(cs) : cs \in SUBSET Range(ClassSamples) }
                       \cup { Reverse(Chosen(cs)) : cs \in SUBSET Range(ClassSamples) },
              n \in { 0, MinPasswordLength - 1, MinPasswordLength },
              c \in Filler }

\* expiresIn strings: everything up to MaxSpecLen characters over digits,
\* units and a few other characters, and the examples of the documentation
SpecChars == { "0", "1", "7", "d", "h", "m", "D", " ", "-", "." }

SpecInputs ==
    UNION { [1..n -> SpecChars] : n \in 0..MaxSpecLen }
    \cup { <<"3","0","m">>, <<"1",".","5","h">>, <<"7","d","a","y","s">>,
           <<"g","a","r","b","a","g","e">>, <<"0","0","7","d">>, <<"7","d","\n">> }

\* The salts bcrypt's random generator may draw
SaltPool == { "salt-1", "salt-2", "salt-3", "salt-4" }

InitUtil ==
    /\ now \in Instants
    /\ users = << >>
    /\ uuidCount = 0
    /\ requestCounts = [ ip \in Clients |-> Null ]
    /\ passed = [ ip \in Clients |-> 0 ]
    /\ deleted = {}
    /\ last = [ op |-> "none", ip |-> "A", gate |-> NoGate,
                reply |-> Reply(0, "", Null, Null) ]
    /\ calls = [ c \in Slots |-> Null ]
    /\ hashed = << >>
    /\ dreamHistory = << >>
    /\ \/ \E h \in HeaderInputs : evaluated = Call("extractTokenFromHeader", h)
       \/ \E p \in PasswordInputs : evaluated = Call("validatePassword", p)
       \/ \E e \in SpecInputs : evaluated = Call("getTokenExpiration", e)
       \/ \E p \in PasswordInputs : evaluated = Call("hashPassword", p)

\* The value a call returned
Returned(value) == [ value |-> value ]

Returns(result) ==
    /\ evaluated' = [ evaluated EXCEPT !.output = Returned(result) ]
    /\ UNCHANGED <<now, users, uuidCount, requestCounts, passed, deleted, last,
                   calls, dreamHistory>>

ExtractTokenFromHeader ==
    /\ evaluated.fn = "extractTokenFromHeader"
    /\ evaluated.output = Pending
    /\ Returns(extractTokenFromHeader(evaluated.input))
    /\ UNCHANGED hashed

ValidatePassword ==
    /\ evaluated.fn = "validatePassword"
    /\ evaluated.output = Pending
    /\ Returns(validatePassword(evaluated.input))
    /\ UNCHANGED hashed

GetTokenExpiration ==
    /\ evaluated.fn = "getTokenExpiration"
    /\ evaluated.output = Pending
    /\ Returns(getTokenExpiration(evaluated.input, now))
    /\ UNCHANGED hashed

SaltsDrawn == { hashed[i].hash.salt : i \in DOMAIN hashed }

\* hashPassword is called, once more for the same password when it has been
\* called before; the salt is one the random generator has not given out
HashPassword(salt) ==
    /\ evaluated.fn = "hashPassword"
    /\ Len(hashed) < MaxHashes
    /\ salt \notin SaltsDrawn
    /\ LET hash == hashPassword(evaluated.input, salt)
       IN  /\ hashed' = Append(hashed, [ password |-> evaluated.input, hash |-> hash ])
           /\ Returns(hash)

\* comparePassword of the password with a credential made for it
ComparePassword(i) ==
    /\ evaluated.fn \in { "hashPassword", "comparePassword" }
    /\ evaluated.output # Pending
    /\ i \in DOMAIN hashed
    /\ evaluated' = [ fn |-> "comparePassword", input |-> hashed[i],
                      output |-> Returned(comparePassword(hashed[i].password,
                                                          hashed[i].hash)) ]
    /\ UNCHANGED <<now, users, uuidCount, requestCounts, passed, deleted, last,
                   calls, hashed, dreamHistory>>

NextUtil ==
    \/ ExtractTokenFromHeader
    \/ ValidatePassword
    \/ GetTokenExpiration
    \/ \E salt \in SaltPool : HashPassword(salt)
    \/ \E i \in 1..MaxHashes : ComparePassword(i)

SpecUtil == InitUtil /\ [][NextUtil]_vars

\* The call of fn has returned
Made(fn) == evaluated # Null /\ evaluated.fn = fn /\ evaluated.output # Pending

\* C13: extractTokenFromHeader returns the token, unchanged, of a header value
\* that is exactly Bearer, one space and a non-empty token without spaces,
\* and null for every other header value.
C13_ExactBearerGrammar ==
    Made("extractTokenFromHeader")
    => evaluated.output.value = BearerToken(evaluated.input)

RuleOrder == << ErrLength, ErrUpper, ErrLower, ErrDigit, ErrSpecial >>

\* The password violates the rule that msg reports
Breaks(password, msg) ==
    CASE msg = ErrLength  -> Len(password) < MinPasswordLength
      [] msg = ErrUpper   -> \A i \in DOMAIN password : password[i] \notin UpperSet
      [] msg = ErrLower   -> \A i \in DOMAIN password : password[i] \notin LowerSet
      [] msg = ErrDigit   -> \A i \in DOMAIN password : password[i] \notin Digits
      [] msg = ErrSpecial -> \A i \in DOMAIN password : password[i] \notin Specials

PlaceOf(msg) == CHOOSE k \in DOMAIN RuleOrder : RuleOrder[k] = msg

\* C14: validatePassword reports the message of a rule exactly when the
\* password violates that rule, whatever the other rules say, in the order
\* of the rules, and isValid says that nothing was reported; 'weak' gets the
\* length, uppercase, digit and symbol messages, 'Str0ng!Pass' gets none.
C14_AllRulesReported ==
    Made("validatePassword")
    => LET password == evaluated.input
           out      == evaluated.output.value
       IN  /\ \A msg \in Range(RuleOrder) :
                  (\E i \in DOMAIN out.errors : out.errors[i] = msg)
                    <=> Breaks(password, msg)
           /\ \A i, j \in DOMAIN out.errors :
                  i < j => PlaceOf(out.errors[i]) < PlaceOf(out.errors[j])
           /\ out.isValid <=> out.errors = << >>
           /\ password = PwWeak
                => out.errors = << ErrLength, ErrUpper, ErrDigit, ErrSpecial >>
           /\ password = PwStrong => (out.errors = << >> /\ out.isValid)

\* 'weak' was validated: four violations reported together, lowercase not
C14_Witness ==
    /\ Made("validatePassword")
    /\ evaluated.input = PwWeak
    /\ Len(evaluated.output.value.errors) = 4
    /\ ~evaluated.output.value.isValid

\* The number a string of decimal digits denotes
RECURSIVE Magnitude(_)
Magnitude(digits) ==
    IF digits = << >> THEN 0
    ELSE DigitValue(Head(digits)) * 10 ^ (Len(digits) - 1) + Magnitude(Tail(digits))

SecondsOf(unit) ==
    CASE unit = "d" -> 86400
      [] unit = "h" -> 3600
      [] unit = "m" -> 60

\* One or more decimal digits followed by exactly one unit character
IsDuration(spec) ==
    /\ Len(spec) >= 2
    /\ spec[Len(spec)] \in { "d", "h", "m" }
    /\ \A i \in 1..(Len(spec) - 1) : spec[i] \in Digits

\* C15: getTokenExpiration returns a number for every string: the unix
\* second of the call plus n days, hours or minutes for the digits of n
\* followed by d, h or m, and plus seven days (604800) for any other string.
C15_ExpiryOfSpec ==
    Made("getTokenExpiration")
    => LET spec == evaluated.input
           out  == evaluated.output.value
           secs == now \div 1000
       IN  /\ out \in Int
           /\ IsDuration(spec)
                => out = secs + Magnitude(SubSeq(spec, 1, Len(spec) - 1))
                                  * SecondsOf(spec[Len(spec)])
           /\ ~IsDuration(spec) => out = secs + 604800
           /\ spec = <<"7", "d">> => out = secs + 604800
           /\ spec = <<"1", "h">> => out = secs + 3600
           /\ spec = <<"3", "0", "m">> => out = secs + 1800
           /\ spec \in { << >>, <<"7", " ", "d">>, <<"-", "1", "d">>, <<"7", "D">>,
                         <<"1", ".", "5", "h">>, <<"7", "d", "a", "y", "s">>,
                         <<"g", "a", "r", "b", "a", "g", "e">> }
                => out = secs + 604800

\* '30m' was asked for in the middle of a second
C15_Witness ==
    /\ Made("getTokenExpiration")
    /\ evaluated.input = <<"3", "0", "m">>
    /\ now % MsPerSec # 0
    /\ now >= MsPerSec
    /\ evaluated.output.value = (now \div 1000) + 1800

-----------------------------------------------------------------------------
(* The 429 reply *)

\* C17: the retryAfter of a 429 reply is the time left in the live window
\* rounded up to whole seconds: the least number of seconds that covers
\* resetTime - now, which is not negative and not more than the least
\* number of seconds that covers windowMs (1 for a window of 1000 ms).
C17_RetryAfterIsTimeLeft ==
    [][\A ip \in Clients :
          (Arrived(ip) /\ last'.reply.status = 429)
          => LET left       == requestCounts'[ip].resetTime - now
                 retryAfter == last'.reply.data.retryAfter
             IN  /\ left >= 0
                 /\ left <= windowMs
                 /\ retryAfter * 1000 >= left
                 /\ (retryAfter - 1) * 1000 < left
                 /\ retryAfter >= 0
                 /\ (retryAfter - 1) * 1000 < windowMs
                 /\ windowMs = 1000 => retryAfter <= 1]_vars

\* A request was turned down with part of a second left in its window
C17_Witness ==
    /\ last.reply.status = 429
    /\ last.reply.data.retryAfter = 1
    /\ requestCounts[last.ip].resetTime - now \in 1..(MsPerSec - 1)

-----------------------------------------------------------------------------
(* routes/interpret.ts and dao/dreamDao.ts: POST /api/dreams/interpret.     *)
(* The route is registered outside authRoutes, so the rate-limit hook does  *)
(* not run for it.                                                          *)

MaxDreams == 2      \* dreams stored

MinDreamLength == 10
MaxDreamLength == 1000

\* JSON values of a request body: a string of so many characters (tag tells
\* strings of the same length apart), a number
Str(length, tag) == [ type |-> "string", length |-> length, tag |-> tag ]
Num(value) == [ type |-> "number", value |-> value ]

\* !body[field]: the field is missing, the empty string or the number 0
Absent(body, field) ==
    \/ field \notin DOMAIN body
    \/ body[field] = Str(0, "")
    \/ body[field] = Num(0)

\* A reply of this route: HTTP status and the JSON sent
Sent(status, payload) == [ status |-> status, payload |-> payload ]

\* Number.prototype.toString of a non-negative integer: its decimal digits
RECURSIVE NumberToString(_)
NumberToString(n) ==
    IF n < 10 THEN << DigitSeq[n + 1] >>
    ELSE Append(NumberToString(n \div 10), DigitSeq[(n % 10) + 1])

\* saveDream: the id is Date.now().toString()
saveDream(dreams, userId, dreamText, interpretation, clock) ==
    LET id == NumberToString(clock)
    IN  [ id |-> id,
          dreams |-> Append(dreams, [ id |-> id, userId |-> userId,
                                      dreamText |-> dreamText,
                                      interpretation |-> interpretation ]) ]

\* What interpretDream does with a text: it returns an interpretation (from
\* the model or the mock) or it throws
ServiceOutcomes == { "interprets", "throws" }

Interpretation(dreamText) == Str(500, "interpretation")

\* The handler of POST /interpret
interpret(dreams, body, service, clock) ==
    IF \/ Absent(body, "dreamText")
       \/ body.dreamText.type # "string"
       \/ body.dreamText.length < MinDreamLength
       \/ body.dreamText.length > MaxDreamLength
      THEN [ dreams |-> dreams,
             reply |-> Sent(400, [ message |->
                         "Dream text must be a string between 10 and 1000 characters" ]) ]
    ELSE IF Absent(body, "userId") \/ body.userId.type # "string"
      THEN [ dreams |-> dreams,
             reply |-> Sent(400, [ message |-> "User ID is required" ]) ]
    ELSE IF service = "throws"
      THEN [ dreams |-> dreams,
             reply |-> Sent(500, [ message |-> "Failed to interpret dream" ]) ]
    ELSE LET interpretation == Interpretation(body.dreamText)
             saved == saveDream(dreams, body.userId, body.dreamText, interpretation, clock)
         IN  [ dreams |-> saved.dreams,
               reply |-> Sent(200, [ data |-> [ interpretation |-> interpretation ] ]) ]

\* Request bodies: each of the two fields missing or present with a value
DreamTexts == { Str(0, ""), Str(MinDreamLength - 1, "dream"), Str(MinDreamLength, "dream"),
                Str(MaxDreamLength, "dream"), Str(MaxDreamLength + 1, "dream"), Num(42) }

UserIds == { Str(0, ""), Str(36, "user-1"), Num(7) }

Bodies ==
    { << >> }
    \cup { [ dreamText |-> t ] : t \in DreamTexts }
    \cup { [ userId |-> u ] : u \in UserIds }
    \cup { [ dreamText |-> t, userId |-> u ] : t \in DreamTexts, u \in UserIds }

Interpret(clientIp, body, service) ==
    LET out == interpret(dreamHistory, body, service, now)
    IN  /\ Len(out.dreams) <= MaxDreams
        /\ dreamHistory' = out.dreams
        /\ last' = [ op |-> "interpret", ip |-> clientIp, gate |-> NoGate,
                     reply |-> out.reply, request |-> body, service |-> service ]
        /\ UNCHANGED <<now, users, uuidCount, requestCounts, passed, deleted,
                       calls, evaluated, hashed>>

NextDreams ==
    \/ Tick
    \/ \E ip \in Callers, body \in Bodies, service \in ServiceOutcomes :
          Interpret(ip, body, service)

SpecDreams == Init /\ [][NextDreams]_vars

\* C18: a request body that holds a valid dreamText and nothing else is
\* answered { status: 'success', data: { interpretation } } when the
\* interpretation succeeds and 500 when it fails, and a body whose dreamText
\* is not valid is answered 400.
C18_InterpretAsDocumented ==
    last.op = "interpret"
    => LET body  == last.request
           valid == /\ "dreamText" \in DOMAIN body
                    /\ body.dreamText.type = "string"
                    /\ body.dreamText.length >= MinDreamLength
                    /\ body.dreamText.length <= MaxDreamLength
       IN  /\ ~valid => last.reply.status = 400
           /\ (valid /\ DOMAIN body = { "dreamText" })
                => IF last.service = "throws"
                     THEN last.reply.status = 500
                     ELSE /\ last.reply.status = 200
                          /\ DOMAIN last.reply.payload = { "status", "data" }
                          /\ last.reply.payload.status = "success"
                          /\ DOMAIN last.reply.payload.data = { "interpretation" }

-----------------------------------------------------------------------------
(* dao/userDao.ts under concurrent calls.  A call runs without interruption *)
(* up to an await of bcrypt (AuthUtils.hashPassword), where other calls may  *)
(* run, and resumes after it; deleteUser awaits nothing.                     *)

\* What a call returned, or the error it threw
Value(v) == [ value |-> v ]
Thrown(message) == [ thrown |-> message ]

\* A slot is idle when it holds no call or a call that has returned; a new
\* call takes the first idle slot
Idle(c) == IF calls[c] = Null THEN TRUE ELSE calls[c].pc = "done"

Free(c) == Idle(c) /\ \A b \in Slots : b < c => ~Idle(b)

Running(c, method) ==
    IF calls[c] = Null THEN FALSE
    ELSE calls[c].method = method /\ calls[c].pc = "hashing"

DaoFrame == UNCHANGED <<now, requestCounts, passed, last, evaluated, hashed, dreamHistory>>

\* createUser up to `await AuthUtils.hashPassword`: the look-up by e-mail
CreateUserBegin(c, userData) ==
    /\ Free(c)
    /\ calls' = [ calls EXCEPT ![c] =
                    IF findUserByEmail(users, userData.email) # Null
                      THEN [ method |-> "createUser", pc |-> "done", userData |-> userData,
                             result |-> Thrown("User with this email already exists") ]
                      ELSE [ method |-> "createUser", pc |-> "hashing",
                             userData |-> userData ] ]
    /\ UNCHANGED <<users, uuidCount, deleted>>
    /\ DaoFrame

\* createUser after the await: uuidv4(), the new record, users.push
CreateUserEnd(c, salt) ==
    /\ Running(c, "createUser")
    /\ uuidCount < MaxIds
    /\ Len(users) < MaxUsers
    /\ LET userData == calls[c].userData
           newUser  == [ id          |-> uuidCount + 1,
                         email       |-> toLowerCase(userData.email),
                         password    |-> hashPassword(userData.password, salt),
                         lastLoginAt |-> Null ]
       IN  /\ users' = Append(users, newUser)
           /\ uuidCount' = uuidCount + 1
           /\ calls' = [ calls EXCEPT ![c] =
                           [ method |-> "createUser", pc |-> "done", userData |-> userData,
                             result |-> Value(newUser) ] ]
    /\ UNCHANGED deleted
    /\ DaoFrame

\* changePassword up to `await AuthUtils.hashPassword`: users.findIndex
ChangePasswordBegin(c, userId, newPassword) ==
    /\ Free(c)
    /\ LET userIndex == FindIndexById(users, userId)
       IN  calls' = [ calls EXCEPT ![c] =
                       IF userIndex = 0
                         THEN [ method |-> "changePassword", pc |-> "done",
                                userId |-> userId, newPassword |-> newPassword,
                                userIndex |-> userIndex, result |-> Value(FALSE) ]
                         ELSE [ method |-> "changePassword", pc |-> "hashing",
                                userId |-> userId, newPassword |-> newPassword,
                                userIndex |-> userIndex ] ]
    /\ UNCHANGED <<users, uuidCount, deleted>>
    /\ DaoFrame

\* changePassword after the await: users[userIndex].password = hashedPassword,
\* a TypeError when the array has no element at userIndex any more
ChangePasswordEnd(c, salt) ==
    /\ Running(c, "changePassword")
    /\ LET userIndex == calls[c].userIndex
           present   == userIndex \in DOMAIN users
       IN  /\ users' = IF present
                          THEN [ users EXCEPT ![userIndex].password =
                                   hashPassword(calls[c].newPassword, salt) ]
                          ELSE users
           /\ calls' = [ calls EXCEPT ![c] =
                           [ method |-> "changePassword", pc |-> "done",
                             userId |-> calls[c].userId,
                             newPassword |-> calls[c].newPassword,
                             userIndex |-> userIndex,
                             result |-> IF present THEN Value(TRUE)
                                        ELSE Thrown("TypeError") ] ]
    /\ UNCHANGED <<uuidCount, deleted>>
    /\ DaoFrame

\* deleteUser, which has no await
DeleteUser(c, userId) ==
    /\ Free(c)
    /\ LET out  == deleteUser(users, userId)
           user == findUserById(users, userId)
       IN  /\ users' = out.users
           /\ deleted' = IF out.ok
                            THEN deleted \cup { [ id |-> userId, email |-> user.email ] }
                            ELSE deleted
           /\ calls' = [ calls EXCEPT ![c] =
                           [ method |-> "deleteUser", pc |-> "done", userId |-> userId,
                             result |-> Value(out.ok) ] ]
    /\ UNCHANGED uuidCount
    /\ DaoFrame

Registrations == { [ email |-> e, password |-> PwStrong ] : e \in { EmailA, EmailAUpper, EmailB } }

NextRace ==
    \/ \E c \in Slots, userData \in Registrations : CreateUserBegin(c, userData)
    \/ \E c \in Slots, salt \in Salts : CreateUserEnd(c, salt)
    \/ \E c \in Slots, userId \in Ids : ChangePasswordBegin(c, userId, PwOther)
    \/ \E c \in Slots, salt \in Salts : ChangePasswordEnd(c, salt)
    \/ \E c \in Slots, userId \in Ids : DeleteUser(c, userId)

SpecRace == Init /\ [][NextRace]_vars

\* C19: no two records of the user directory have the same lowercased
\* e-mail, whatever the interleaving of the createUser calls.
C19_OneRecordPerEmail ==
    \A i, j \in DOMAIN users :
        i # j => toLowerCase(users[i].email) # toLowerCase(users[j].email)

\* C20: when changePassword writes the new hash, the position it looked up
\* before the await still holds the user with the id it was called with: the
\* call does not throw, that user gets the new password and every other
\* record stays as it was.
C20_ChangesOnlyItsUser ==
    [][\A c \in Slots :
          (Running(c, "changePassword") /\ calls'[c].pc = "done")
          => LET userIndex == calls[c].userIndex
             IN  /\ "thrown" \notin DOMAIN calls'[c].result
                 /\ userIndex \in DOMAIN users
                 /\ users[userIndex].id = calls[c].userId
                 /\ \A i \in DOMAIN users' :
                        users'[i].id # calls[c].userId => users'[i] = users[i]]_vars

-----------------------------------------------------------------------------
(* POST /refresh *)

\* C21: /refresh mints a pair exactly when the presented token verifies as a
\* refresh token and the user of its claim exists, for that user's current id
\* and e-mail; it answers 401 INVALID_REFRESH_TOKEN or 401 USER_NOT_FOUND
\* otherwise and never changes the directory; and the refresh token of a
\* register or login reply is accepted while it is unexpired and the account
\* exists.
C21_RefreshMintsForLiveUser ==
    /\ \A t \in Tokens :
          LET out     == refresh(users, t, now)
              decoded == verifyRefreshToken(t, now)
              alive   == decoded # Null /\ decoded.userId \in IdsOf(users)
          IN  /\ out.users = users
              /\ ~out.drew
              /\ (out.reply.status = 200) <=> alive
              /\ alive =>
                    LET user == findUserById(users, decoded.userId)
                    IN  \A minted \in { out.reply.data.token, out.reply.data.refreshToken } :
                           /\ minted.payload.userId = user.id
                           /\ minted.payload.email = user.email
              /\ decoded = Null =>
                    out.reply.status = 401 /\ out.reply.code = "INVALID_REFRESH_TOKEN"
              /\ (decoded # Null /\ ~alive) =>
                    out.reply.status = 401 /\ out.reply.code = "USER_NOT_FOUND"
    /\ ( /\ Issued
         /\ last.op \in { "register", "login" }
         /\ UnixSeconds(now) < last.reply.data.refreshToken.payload.exp
         /\ last.reply.data.user.id \in IdsOf(users) )
       => refresh(users, last.reply.data.refreshToken, now).reply.status = 200

-----------------------------------------------------------------------------
(* The window of the request gate is fixed *)

\* C22: a request that finds a live window (now <= resetTime), whether it
\* passes or is turned down, leaves the reset time of the window as it was
\* and adds to the count; no window ends later than windowMs after the
\* request that is handled; and the first request of a blocked address after
\* the reset time passes.
C22_FixedWindow ==
    [][\A ip \in Clients :
          Arrived(ip)
          => LET found == requestCounts[ip]
                 live  == found # Null /\ now <= found.resetTime
             IN  /\ live => /\ requestCounts'[ip].resetTime = found.resetTime
                             /\ requestCounts'[ip].count > found.count
                 /\ requestCounts'[ip].resetTime <= now + windowMs
                 /\ (found # Null /\ ~live /\ found.count > maxRequests)
                       => (~last'.gate.limited /\ last'.reply.status # 429)]_vars

\* A blocked address sent again later in the same window: the request was
\* turned down and the window still ends when it did
C22_Witness ==
    /\ last.gate.limited
    /\ last.gate.found # Null
    /\ last.gate.found.count > maxRequests
    /\ requestCounts[last.ip].resetTime = last.gate.found.resetTime
    /\ requestCounts[last.ip].resetTime < now + windowMs

-----------------------------------------------------------------------------
(* The replies of register, login and refresh *)

\* C23: the expiresIn of every reply that issues tokens is the exp claim of
\* the access token of that reply.
C23_ExpiresInIsTokenExpiry ==
    Issued => last.reply.data.expiresIn = last.reply.data.token.payload.exp

\* The bodies POST /login is sent
LoginBodies ==
    { [ email |-> e, password |-> p, rememberMe |-> r ] :
        e \in Emails, p \in Passwords, r \in BOOLEAN }

\* The places of the directory whose e-mail is the given one but for letter case
Registered(email) ==
    { i \in DOMAIN users : toLowerCase(users[i].email) = toLowerCase(email) }

\* The body names an account and its password
Verifies(body) ==
    \E i \in Registered(body.email) : comparePassword(body.password, users[i].password)

\* C24: a login that names no account and a login that names an account with
\* a wrong password get the same reply, 401 'Invalid email or password'
\* INVALID_CREDENTIALS with no tokens, and leave the directory as it was; a
\* login changes lastLoginAt, of the account it names and of no other, only
\* when its password verifies.
C24_FailedLoginTellsNothing ==
    /\ \A body \in LoginBodies :
          LET out == login(users, body, now)
          IN  IF Verifies(body)
                THEN /\ out.reply.status = 200
                     /\ \A i \in DOMAIN users :
                           out.users[i] =
                             IF i \in Registered(body.email)
                               THEN [ users[i] EXCEPT !.lastLoginAt = [ time |-> now ] ]
                               ELSE users[i]
                ELSE /\ out.reply = [ status |-> 401, code |-> "INVALID_CREDENTIALS",
                                      error |-> "Invalid email or password",
                                      user |-> Null, data |-> Null ]
                     /\ out.users = users
                     /\ ~out.drew
    /\ (last.op = "login" /\ last.reply.status # 200) => ~Issued

\* An account has logged in, and a later login for it with a wrong password
\* and one for an e-mail that has no account are both refused
C24_Witness ==
    /\ last.op = "login"
    /\ last.reply.status = 401
    /\ \E i \in DOMAIN users : users[i].lastLoginAt # Null
    /\ \E known, unknown \in LoginBodies :
          /\ Registered(known.email) # {} /\ ~Verifies(known)
          /\ Registered(unknown.email) = {}
          /\ login(users, known, now).reply = last.reply
          /\ login(users, unknown, now).reply = last.reply

\* The bodies POST /register is sent
RegisterBodies == { [ email |-> e, password |-> p ] : e \in Emails, p \in Passwords }

\* The reply gives no token
NoTokens(reply) ==
    IF reply.data = Null THEN TRUE ELSE DOMAIN reply.data \cap { "token", "refreshToken" } = {}

\* C25: a registration is answered 400 INVALID_EMAIL when the e-mail fails
\* isValidEmail, else 400 WEAK_PASSWORD with the list of violations when the
\* password fails validatePassword, else 409 USER_EXISTS when an account has
\* the same lowercased e-mail, each without tokens and with the directory
\* left as it was; otherwise it appends exactly one user, whose stored e-mail
\* is the lowercased one and whose stored password verifies the one sent.
C25_RejectedRegistrationAddsNothing ==
    \A body \in RegisterBodies, salt \in Salts :
        LET out     == register(users, body, uuidCount + 1, salt, now)
            refused == out.users = users /\ ~out.drew /\ NoTokens(out.reply)
            added   == out.users[Len(out.users)]
        IN  IF ~isValidEmail(body.email)
              THEN refused /\ out.reply.status = 400 /\ out.reply.code = "INVALID_EMAIL"
            ELSE IF ~validatePassword(body.password).isValid
              THEN /\ refused
                   /\ out.reply.status = 400 /\ out.reply.code = "WEAK_PASSWORD"
                   /\ out.reply.data.details = validatePassword(body.password).errors
                   /\ out.reply.data.details # << >>
            ELSE IF Registered(body.email) # {}
              THEN refused /\ out.reply.status = 409 /\ out.reply.code = "USER_EXISTS"
            ELSE /\ out.reply.status = 201
                 /\ Len(out.users) = Len(users) + 1
                 /\ SubSeq(out.users, 1, Len(users)) = users
                 /\ added.email = toLowerCase(body.email)
                 /\ comparePassword(body.password, added.password)
                 /\ added.id \notin IdsOf(users)

\* A registration for an e-mail that differs from a stored one in letter
\* case only was answered 409, and one with a malformed e-mail and a weak
\* password would be answered INVALID_EMAIL
C25_Witness ==
    /\ last.op = "register"
    /\ last.reply.status = 409
    /\ last.reply.code = "USER_EXISTS"
    /\ \E i \in DOMAIN users : users[i].email = EmailA
    /\ register(users, [ email |-> EmailAUpper, password |-> PwStrong ],
                uuidCount + 1, "salt-1", now).reply = last.reply
    /\ register(users, [ email |-> EmailBad, password |-> PwWeak ],
                uuidCount + 1, "salt-1", now).reply.code = "INVALID_EMAIL"

-----------------------------------------------------------------------------
(* dao/dreamDao.ts: the ids of the stored dreams *)

\* dreamHistory.find(dream => dream.id === id): the first dream with the id,
\* or undefined
getDreamById(dreams, id) ==
    LET found == { i \in DOMAIN dreams : dreams[i].id = id }
    IN  IF found = {} THEN Null
        ELSE dreams[CHOOSE i \in found : \A j \in found : i <= j]

\* C26: no two stored dreams have the same id, and getDreamById of the id
\* that saveDream returned last is the dream saved last.
C26_DreamIdsUnique ==
    /\ \A i, j \in DOMAIN dreamHistory :
          i # j => dreamHistory[i].id # dreamHistory[j].id
    /\ dreamHistory # << >>
          => getDreamById(dreamHistory, dreamHistory[Len(dreamHistory)].id)
               = dreamHistory[Len(dreamHistory)]

====
